---- MODULE Spec2Model ----
(***************************************************************************)
(* Model of the rules engine of rust_sweeper (src/src/game.rs): Position,  *)
(* Tile, Board and Engine.  The engine is one record mirroring the Rust    *)
(* structs; reveal and flag are the two public mutating operations.  The   *)
(* only place where a call waits for an outside value is the rejection     *)
(* sampling loop of Board::insert_bombs, which draws one random index per  *)
(* iteration: each draw is one step (Sample), and the draw that places the *)
(* last bomb also runs the rest of Engine::reveal.  The input handlers of  *)
(* src/src/main.rs, which own the engine and the index of the pressed      *)
(* tile, are modelled on top of it.                                        *)
(***************************************************************************)
EXTENDS Integers, Sequences, FiniteSets, TLC

\* Bounds of the model: boards of at most MaxCells tiles, 0..MaxBombs bombs.
MaxCells == 6
MaxBombs == 2
\* On the boards of SpecRoomy the caller keeps at most MaxFlags tiles
\* flagged at a time.
MaxFlags == 2

VARIABLES
    engine,   \* the Engine struct: board, state, bombs_left
    pc,       \* "idle" between calls, "insert_bombs" inside the sampling
              \* loop of the first reveal, "panicked" after a Rust panic
    frame,    \* locals of the running insert_bombs call
    last,     \* history: the last public call, the phase it started in and
              \* the state of its target tile when it started
    current_tile_idx
              \* MainState::current_tile_idx, the tile under the pressed left
              \* button: NoTile or SomeTile(index)

vars == <<engine, pc, frame, last, current_tile_idx>>

----------------------------------------------------------------------------
(* Position *)

Position(x, y) == <<x, y>>

from_index(index, board_width) ==
    Position(index % board_width, index \div board_width)

\* to_index computes (y as usize) * width + (x as usize) in 64-bit unsigned
\* arithmetic.  A negative i32 v becomes 2^64 + v, so modulo 2^64 the result
\* is y*width + x; a negative value here stands for 2^64 + that value, which
\* is beyond the length of any Vec.
to_index(pos, board_width) == pos[2] * board_width + pos[1]

\* Whether the multiplication or the addition of to_index exceeds 2^64 - 1
\* (a panic when overflow checks are compiled in, a wrap-around otherwise).
to_index_overflows(pos, board_width) ==
    LET x == pos[1]
        y == pos[2]
    IN  \/ y < 0 /\ board_width >= 2
        \/ y < 0 /\ board_width = 1 /\ (x < 0 \/ y + x >= 0)
        \/ y >= 0 /\ x < 0 /\ y * board_width + x >= 0

ADJACENT_OFFSETS ==
    << Position(-1, -1), Position(0, -1), Position(1, -1), Position(1, 0),
       Position(1, 1), Position(0, 1), Position(-1, 1), Position(-1, 0) >>

Add(lhs, rhs) == Position(lhs[1] + rhs[1], lhs[2] + rhs[2])

----------------------------------------------------------------------------
(* TileState, Tile *)

Revealed == <<"Revealed">>
Block(flagged) == <<"Block", flagged>>

is_bomb(tile) == tile.has_bomb

\* Faulty variants of no_adjacent_bombs: always true, and inverted.
no_adjacent_bombs_always(tile) == TRUE

no_adjacent_bombs_inverted(tile) == tile.adjacent_bombs # 0

no_adjacent_bombs(tile) == tile.adjacent_bombs = 0

is_flagged(tile) == tile.state = Block(TRUE)

is_revealed(tile) == tile.state = Revealed

----------------------------------------------------------------------------
(* GameState *)

GameState == {"Lost", "Won", "InProgress", "FirstMove"}

----------------------------------------------------------------------------
(* Board *)

create_tiles(width, height) ==
    [i \in 0 .. (width * height - 1) |->
        [state |-> Block(FALSE), has_bomb |-> FALSE, adjacent_bombs |-> 0]]

\* Faulty variant of Board::new: the counter of concealed tiles starts one
\* short.
BoardNew_short_count(width, height, num_bombs) ==
    [width |-> width, height |-> height,
     tiles |-> create_tiles(width, height),
     tiles_left |-> width * height - 1,
     num_bombs |-> num_bombs]

BoardNew(width, height, num_bombs) ==
    [width |-> width, height |-> height,
     tiles |-> create_tiles(width, height),
     tiles_left |-> width * height,
     num_bombs |-> num_bombs]

position_out_of_bounds(board, pos) ==
    pos[1] < 0 \/ pos[1] >= board.width \/ pos[2] < 0 \/ pos[2] >= board.height

\* The in-bounds test written out inside insert_bombs.
safe_in_bounds(board, pos) ==
    pos[1] >= 0 /\ pos[1] < board.width /\ pos[2] >= 0 /\ pos[2] < board.height

\* Faulty variant of safe_positions: only the target is kept free.
safe_positions_target_only(board, safe_position) == <<safe_position>>

\* safe_positions of insert_bombs: the target first, then its in-bounds
\* neighbours in the order of ADJACENT_OFFSETS.
safe_positions(board, safe_position) ==
    <<safe_position>> \o
    SelectSeq([k \in 1 .. 8 |-> Add(safe_position, ADJACENT_OFFSETS[k])],
              LAMBDA p : safe_in_bounds(board, p))

safe_idxs(board, safe_position) ==
    LET sp == safe_positions(board, safe_position)
    IN  [k \in 1 .. Len(sp) |-> to_index(sp[k], board.width)]

contains(seq, v) == \E k \in 1 .. Len(seq) : seq[k] = v

\* Faulty variants of sample_rejected: one forgets the safe indices, the
\* other forgets the tiles that already hold a bomb.
sample_rejected_no_safe(tiles, idxs, idx) == tiles[idx].has_bomb

sample_rejected_no_dup(tiles, idxs, idx) == contains(idxs, idx)

\* The rejection test of one sampling iteration.
sample_rejected(tiles, idxs, idx) ==
    tiles[idx].has_bomb \/ contains(idxs, idx)

\* Faulty variant of insert_bombs_continues: one iteration too many.
insert_bombs_continues_one_more(board, bombs_placed) ==
    bombs_placed <= board.num_bombs

\* The loop condition of insert_bombs.
insert_bombs_continues(board, bombs_placed) == bombs_placed < board.num_bombs

\* One iteration of the sampling loop with the drawn index idx: the pair of
\* the new tiles and the new bombs_placed.
insert_bombs_iter(board, fr, idx) ==
    IF sample_rejected(board.tiles, fr.safe_idxs, idx)
    THEN [tiles |-> board.tiles, bombs_placed |-> fr.bombs_placed]
    ELSE [tiles |-> [board.tiles EXCEPT ![idx].has_bomb = TRUE],
          bombs_placed |-> fr.bombs_placed + 1]

\* Faulty variant of adjacent_count: the bounds test is left out, so a
\* neighbour beyond the left or right edge is looked up in the next row.
adjacent_count_wraps(board, pos) ==
    Cardinality({k \in 1 .. 8 :
        LET adj_idx == to_index(Add(pos, ADJACENT_OFFSETS[k]), board.width)
        IN  /\ adj_idx \in DOMAIN board.tiles
            /\ board.tiles[adj_idx].has_bomb})

adjacent_count(board, pos) ==
    Cardinality({k \in 1 .. 8 :
        LET adj_pos == Add(pos, ADJACENT_OFFSETS[k])
        IN  /\ ~position_out_of_bounds(board, adj_pos)
            /\ board.tiles[to_index(adj_pos, board.width)].has_bomb})

\* Faulty variant of calculate_adjacent_bombs: no count is stored.
calculate_adjacent_bombs_none(board) == board

calculate_adjacent_bombs(board) ==
    [board EXCEPT !.tiles =
        [idx \in DOMAIN board.tiles |->
            IF board.tiles[idx].has_bomb
            THEN board.tiles[idx]
            ELSE [board.tiles[idx] EXCEPT !.adjacent_bombs =
                    adjacent_count(board, from_index(idx, board.width))]]]

\* Faulty variant of reveal_enqueue: the last offset, the neighbour to the
\* left, is not pushed.
reveal_enqueue_no_west(board, pos) ==
    SelectSeq([k \in 1 .. 7 |-> Add(pos, ADJACENT_OFFSETS[k])],
              LAMBDA p : ~position_out_of_bounds(board, p))

\* Faulty variant of reveal_enqueue: only the four neighbours that share an
\* edge are pushed.
reveal_enqueue_orthogonal(board, pos) ==
    SelectSeq([k \in 1 .. 8 |-> Add(pos, ADJACENT_OFFSETS[k])],
              LAMBDA p : /\ ~position_out_of_bounds(board, p)
                         /\ (p[1] = pos[1] \/ p[2] = pos[2]))

\* The neighbours a revealed tile pushes to the back of the queue.
reveal_enqueue(board, pos) ==
    SelectSeq([k \in 1 .. 8 |-> Add(pos, ADJACENT_OFFSETS[k])],
              LAMBDA p : ~position_out_of_bounds(board, p))

\* Faulty variant of reveal_tile_step: the skip test forgets flagged tiles.
reveal_tile_step_ignores_flag(st) ==
    LET pos == Head(st.queue)
        rest == Tail(st.queue)
        idx == to_index(pos, st.board.width)
        tile == st.board.tiles[idx]
    IN  IF is_revealed(tile)
        THEN [st EXCEPT !.queue = rest]
        ELSE [board |-> [st.board EXCEPT !.tiles[idx].state = Revealed,
                                         !.tiles_left = @ - 1],
              queue |-> IF no_adjacent_bombs(tile)
                        THEN rest \o reveal_enqueue(st.board, pos)
                        ELSE rest]

\* Faulty variant of reveal_tile_step: the skip test forgets revealed tiles.
reveal_tile_step_rereveals(st) ==
    LET pos == Head(st.queue)
        rest == Tail(st.queue)
        idx == to_index(pos, st.board.width)
        tile == st.board.tiles[idx]
    IN  IF is_flagged(tile)
        THEN [st EXCEPT !.queue = rest]
        ELSE [board |-> [st.board EXCEPT !.tiles[idx].state = Revealed,
                                         !.tiles_left = @ - 1],
              queue |-> IF no_adjacent_bombs(tile)
                        THEN rest \o reveal_enqueue(st.board, pos)
                        ELSE rest]

\* One iteration of the while-let loop of reveal_tile on a non-empty queue.
reveal_tile_step(st) ==
    LET pos == Head(st.queue)
        rest == Tail(st.queue)
        idx == to_index(pos, st.board.width)
        tile == st.board.tiles[idx]
    IN  IF is_revealed(tile) \/ is_flagged(tile)
        THEN [st EXCEPT !.queue = rest]
        ELSE [board |-> [st.board EXCEPT !.tiles[idx].state = Revealed,
                                         !.tiles_left = @ - 1],
              queue |-> IF no_adjacent_bombs(tile)
                        THEN rest \o reveal_enqueue(st.board, pos)
                        ELSE rest]

\* Up to n iterations of the loop, fewer when the queue runs empty.  The
\* iterations are split in halves to keep the nesting of the evaluation
\* shallow on boards of several hundred tiles.
LoopChunk == 64

RECURSIVE reveal_tile_steps(_, _)
reveal_tile_steps(st, n) ==
    IF st.queue = <<>> THEN st
    ELSE IF n = 1 THEN reveal_tile_step(st)
    ELSE reveal_tile_steps(reveal_tile_steps(st, n \div 2), n - n \div 2)

\* The while-let loop: iterations until the queue is empty.
RECURSIVE reveal_tile_loop(_)
reveal_tile_loop(st) ==
    IF st.queue = <<>> THEN st.board
    ELSE reveal_tile_loop(reveal_tile_steps(st, LoopChunk))

reveal_tile(board, pos) == reveal_tile_loop([board |-> board, queue |-> <<pos>>])

----------------------------------------------------------------------------
(* Engine *)

EngineNew(w, h, num_bombs) ==
    [board |-> [BoardNew(w, h, num_bombs) EXCEPT !.tiles = create_tiles(w, h)],
     state |-> "FirstMove",
     bombs_left |-> num_bombs]

\* Faulty variant of bombs_left: the signed counter without the clamp.
bombs_left_unclamped(e) == e.bombs_left

bombs_left(e) == IF e.bombs_left < 0 THEN 0 ELSE e.bombs_left

is_lost(e) == e.state = "Lost"

is_won(e) == e.state = "Won"

get_tiles(e) == e.board.tiles

tiles_len(board) == board.width * board.height

\* Indexing self.board.tiles with to_index(pos): -1 for a panic (overflow
\* with checks compiled in, or index out of range), else the index.
tile_index(board, pos, checks) ==
    LET idx == to_index(pos, board.width)
    IN  IF checks /\ to_index_overflows(pos, board.width) THEN -1
        ELSE IF idx < 0 \/ idx >= tiles_len(board) THEN -1
        ELSE idx

\* Faulty variants of flag_tile: one counts in the wrong direction when a
\* flag is removed, the other never removes a flag.
flag_tile_wrong_count(e, idx) ==
    LET tile == e.board.tiles[idx]
    IN  IF tile.state = Revealed
        THEN e
        ELSE IF tile.state = Block(TRUE)
        THEN [e EXCEPT !.bombs_left = @ - 1,
                       !.board.tiles[idx].state = Block(FALSE)]
        ELSE [e EXCEPT !.bombs_left = @ - 1,
                       !.board.tiles[idx].state = Block(TRUE)]

flag_tile_no_unflag(e, idx) ==
    LET tile == e.board.tiles[idx]
    IN  IF tile.state = Revealed
        THEN e
        ELSE IF tile.state = Block(TRUE)
        THEN [e EXCEPT !.bombs_left = @ + 1]
        ELSE [e EXCEPT !.bombs_left = @ - 1,
                       !.board.tiles[idx].state = Block(TRUE)]

\* Faulty variant of flag_tile: a flag can be put on a Revealed tile.
flag_tile_conceals_revealed(e, idx) ==
    LET tile == e.board.tiles[idx]
    IN  IF tile.state = Block(TRUE)
        THEN [e EXCEPT !.bombs_left = @ + 1,
                       !.board.tiles[idx].state = Block(FALSE)]
        ELSE [e EXCEPT !.bombs_left = @ - 1,
                       !.board.tiles[idx].state = Block(TRUE)]

\* The match of Engine::flag on the state of the indexed tile.
flag_tile(e, idx) ==
    LET tile == e.board.tiles[idx]
    IN  IF tile.state = Revealed
        THEN e
        ELSE IF tile.state = Block(TRUE)
        THEN [e EXCEPT !.bombs_left = @ + 1,
                       !.board.tiles[idx].state = Block(FALSE)]
        ELSE [e EXCEPT !.bombs_left = @ - 1,
                       !.board.tiles[idx].state = Block(TRUE)]

\* Engine::flag: the engine after the call and whether the call panicked.
flag(e, pos, checks) ==
    LET idx == tile_index(e.board, pos, checks)
    IN  IF idx = -1
        THEN [engine |-> e, panicked |-> TRUE]
        ELSE [engine |-> flag_tile(e, idx), panicked |-> FALSE]

\* Faulty variants of reveal_blocked: each forgets one terminal phase.
reveal_blocked_won_only(e) == is_won(e)

reveal_blocked_lost_only(e) == is_lost(e)

\* The guard at the top of Engine::reveal.
reveal_blocked(e) == is_lost(e) \/ is_won(e)

\* Faulty variant of check_win_condition: the win needs an empty counter.
check_win_condition_zero(e) ==
    IF e.board.tiles_left = 0
    THEN [e EXCEPT !.state = "Won"]
    ELSE e

\* Faulty variant of check_win_condition: one tile too early.
check_win_condition_early(e) ==
    IF e.board.tiles_left = e.board.num_bombs + 1
    THEN [e EXCEPT !.state = "Won"]
    ELSE e

check_win_condition(e) ==
    IF e.board.tiles_left = e.board.num_bombs
    THEN [e EXCEPT !.state = "Won"]
    ELSE e

\* Faulty variant of reveal_bomb: the bomb tile is revealed through the
\* cascade.
reveal_bomb_cascade(e, idx) ==
    [e EXCEPT !.board = reveal_tile(e.board, from_index(idx, e.board.width)),
              !.state = "Lost"]

\* The bomb branch of Engine::reveal.
reveal_bomb(e, idx) ==
    [e EXCEPT !.board.tiles[idx].state = Revealed, !.state = "Lost"]

\* Faulty variant of reveal_first_move: the phase is left at FirstMove.
reveal_first_move_keeps_phase(e) ==
    [e EXCEPT !.board = calculate_adjacent_bombs(e.board)]

\* Engine::reveal after insert_bombs has returned, in the first move:
\* adjacency is computed and the phase becomes InProgress.
reveal_first_move(e) ==
    [e EXCEPT !.board = calculate_adjacent_bombs(e.board),
              !.state = "InProgress"]

\* Faulty variant of reveal_tail: the early return forgets flagged tiles.
reveal_tail_skips_revealed_only(e, pos, checks) ==
    LET idx == tile_index(e.board, pos, checks)
    IN  IF idx = -1
        THEN [engine |-> e, panicked |-> TRUE]
        ELSE LET tile == e.board.tiles[idx]
             IN  IF is_revealed(tile)
                 THEN [engine |-> e, panicked |-> FALSE]
                 ELSE IF is_bomb(tile)
                 THEN [engine |-> reveal_bomb(e, idx), panicked |-> FALSE]
                 ELSE [engine |->
                          check_win_condition(
                              [e EXCEPT !.board = reveal_tile(e.board, pos)]),
                       panicked |-> FALSE]

\* Engine::reveal from the indexing of the target tile to its end.
reveal_tail(e, pos, checks) ==
    LET idx == tile_index(e.board, pos, checks)
    IN  IF idx = -1
        THEN [engine |-> e, panicked |-> TRUE]
        ELSE LET tile == e.board.tiles[idx]
             IN  IF is_revealed(tile) \/ is_flagged(tile)
                 THEN [engine |-> e, panicked |-> FALSE]
                 ELSE IF is_bomb(tile)
                 THEN [engine |-> reveal_bomb(e, idx), panicked |-> FALSE]
                 ELSE [engine |->
                          check_win_condition(
                              [e EXCEPT !.board = reveal_tile(e.board, pos)]),
                       panicked |-> FALSE]

----------------------------------------------------------------------------
(* The state machine *)

NoFrame == [pos |-> Position(0, 0), safe_idxs |-> <<>>, bombs_placed |-> 0]

\* Option<usize>: None and Some(index).
NoTile == <<>>
SomeTile(index) == <<index>>

\* Coordinates of the board: what the input layer of main.rs passes, which
\* converts a tile index below width*height with Position::from_index.
Inputs(e) ==
    {from_index(i, e.board.width) : i \in 0 .. (tiles_len(e.board) - 1)}

\* Coordinates any caller of the engine may pass: the board and one ring
\* around it.
AnyInputs(e) == (-1 .. e.board.width) \X (-1 .. e.board.height)

\* Whether overflow checks are compiled in matters only where to_index
\* overflows; both builds are possible there.
Builds(e, pos) ==
    IF to_index_overflows(pos, e.board.width) THEN BOOLEAN ELSE {FALSE}

Init ==
    /\ \E w \in 1 .. MaxCells, h \in 1 .. MaxCells, num_bombs \in 0 .. MaxBombs :
          /\ w * h <= MaxCells
          /\ engine = EngineNew(w, h, num_bombs)
    /\ pc = "idle"
    /\ frame = NoFrame
    /\ last = [op |-> "new", before |-> "FirstMove", target |-> <<"None">>]
    /\ current_tile_idx = NoTile

\* The state of the tile a call aims at, for the history variable.
Target(e, pos) ==
    IF position_out_of_bounds(e.board, pos)
    THEN <<"None">>
    ELSE e.board.tiles[to_index(pos, e.board.width)].state

Called(op, pos) ==
    [op |-> op, before |-> engine.state, target |-> Target(engine, pos)]

FlagCount(e) ==
    Cardinality({i \in DOMAIN e.board.tiles : is_flagged(e.board.tiles[i])})

\* The end of a call: the engine it leaves and whether it panicked.
Return(res) ==
    /\ engine' = res.engine
    /\ pc' = IF res.panicked THEN "panicked" ELSE "idle"
    /\ frame' = NoFrame

\* Flag, Reveal and Sample say what a call does to the engine; the caller
\* says what becomes of the pressed tile.

\* Engine::flag(pos).
Flag(pos) ==
    /\ pc = "idle"
    /\ last' = Called("flag", pos)
    /\ \E checks \in Builds(engine, pos) :
          Return(flag(engine, pos, checks))

\* Engine::reveal(pos).  In the first move with bombs to place the call
\* enters the sampling loop of insert_bombs and continues in Sample.
Reveal(pos) ==
    /\ pc = "idle"
    /\ last' = Called("reveal", pos)
    /\ \E checks \in Builds(engine, pos) :
          IF reveal_blocked(engine)
          THEN Return([engine |-> engine, panicked |-> FALSE])
          ELSE IF engine.state = "FirstMove"
          THEN IF checks
               THEN Return([engine |-> engine, panicked |-> TRUE])
               ELSE IF insert_bombs_continues(engine.board, 0)
               THEN /\ pc' = "insert_bombs"
                    /\ frame' = [pos |-> pos,
                                 safe_idxs |-> safe_idxs(engine.board, pos),
                                 bombs_placed |-> 0]
                    /\ engine' = engine
               ELSE Return(reveal_tail(reveal_first_move(engine), pos, FALSE))
          ELSE Return(reveal_tail(engine, pos, checks))

\* One iteration of the sampling loop of insert_bombs with the random draw
\* idx; the iteration that places the last bomb runs the rest of reveal.
Sample(idx) ==
    /\ pc = "insert_bombs"
    /\ last' = last
    /\ LET it == insert_bombs_iter(engine.board, frame, idx)
           e1 == [engine EXCEPT !.board.tiles = it.tiles]
       IN  IF insert_bombs_continues(engine.board, it.bombs_placed)
           THEN /\ engine' = e1
                /\ pc' = "insert_bombs"
                /\ frame' = [frame EXCEPT !.bombs_placed = it.bombs_placed]
           ELSE Return(reveal_tail(reveal_first_move(e1), frame.pos, FALSE))

\* The engine called directly, as the tests of game.rs do.
Next ==
    \/ /\ \E pos \in Inputs(engine) : Flag(pos)
       /\ UNCHANGED current_tile_idx
    \/ /\ \E pos \in Inputs(engine) : Reveal(pos)
       /\ UNCHANGED current_tile_idx
    \/ /\ \E idx \in 0 .. (tiles_len(engine.board) - 1) : Sample(idx)
       /\ UNCHANGED current_tile_idx

Spec == Init /\ [][Next]_vars

\* The engine as tests::test_reveal_bomb_tile sets it up through the private
\* fields: a 3x3 board in progress whose only bomb is at (1,1), adjacency
\* computed, nothing revealed or flagged.
FixedEngine ==
    LET e == EngineNew(3, 3, 1)
        bomb_idx == to_index(Position(1, 1), 3)
        cleared == [i \in DOMAIN e.board.tiles |->
                       [e.board.tiles[i] EXCEPT !.has_bomb = FALSE]]
        placed == [cleared EXCEPT ![bomb_idx].has_bomb = TRUE]
    IN  [e EXCEPT !.state = "InProgress",
                  !.board = calculate_adjacent_bombs(
                                [e.board EXCEPT !.tiles = placed])]

InitFixed ==
    /\ engine = FixedEngine
    /\ pc = "idle"
    /\ frame = NoFrame
    /\ last = [op |-> "new", before |-> "InProgress", target |-> <<"None">>]
    /\ current_tile_idx = NoTile

\* No bombs are left to place on the fixed layout: only flag and reveal act.
NextFixed ==
    \/ /\ \E pos \in Inputs(engine) : Flag(pos)
       /\ UNCHANGED current_tile_idx
    \/ /\ \E pos \in Inputs(engine) : Reveal(pos)
       /\ UNCHANGED current_tile_idx

SpecFixed == InitFixed /\ [][NextFixed]_vars

\* Boards with room for any safe zone: at least 9 and at most MaxRoomyCells
\* tiles in at least two rows, not higher than wide, and at most
\* width*height - 9 bombs.
MaxRoomyCells == 10

InitRoomy ==
    /\ \E w \in 1 .. MaxRoomyCells, h \in 1 .. MaxRoomyCells,
          num_bombs \in 0 .. MaxBombs :
          /\ h >= 2 /\ w >= h
          /\ w * h >= 9
          /\ w * h <= MaxRoomyCells
          /\ num_bombs <= w * h - 9
          /\ engine = EngineNew(w, h, num_bombs)
    /\ pc = "idle"
    /\ frame = NoFrame
    /\ last = [op |-> "new", before |-> "FirstMove", target |-> <<"None">>]
    /\ current_tile_idx = NoTile

\* The coordinates a caller passes to flag when it keeps at most MaxFlags
\* tiles flagged.
FlagInputs(e) ==
    {pos \in Inputs(e) : FlagCount(flag(e, pos, FALSE).engine) <= MaxFlags}

NextRoomy ==
    \/ /\ \E pos \in FlagInputs(engine) : Flag(pos)
       /\ UNCHANGED current_tile_idx
    \/ /\ \E pos \in Inputs(engine) : Reveal(pos)
       /\ UNCHANGED current_tile_idx
    \/ /\ \E idx \in 0 .. (tiles_len(engine.board) - 1) : Sample(idx)
       /\ UNCHANGED current_tile_idx

SpecRoomy == InitRoomy /\ [][NextRoomy]_vars

\* The same engine with the cascade of Board::reveal_tile taken one loop
\* iteration at a time.  A reveal that reaches reveal_tile stops at its
\* entry with the queue holding the target; CascadeStep runs one iteration,
\* and the iteration that leaves the queue empty also runs
\* check_win_condition and returns.
reveal_reaches_cascade(e, pos, checks) ==
    LET idx == tile_index(e.board, pos, checks)
    IN  /\ idx # -1
        /\ ~(is_revealed(e.board.tiles[idx]) \/ is_flagged(e.board.tiles[idx]))
        /\ ~is_bomb(e.board.tiles[idx])

RevealEnter(e, pos, checks) ==
    IF reveal_reaches_cascade(e, pos, checks)
    THEN /\ engine' = e
         /\ pc' = "reveal_tile"
         /\ frame' = [pos |-> pos, queue |-> <<pos>>]
    ELSE Return(reveal_tail(e, pos, checks))

RevealStepwise(pos) ==
    /\ pc = "idle"
    /\ UNCHANGED current_tile_idx
    /\ last' = Called("reveal", pos)
    /\ \E checks \in Builds(engine, pos) :
          IF reveal_blocked(engine)
          THEN Return([engine |-> engine, panicked |-> FALSE])
          ELSE IF engine.state = "FirstMove"
          THEN IF checks
               THEN Return([engine |-> engine, panicked |-> TRUE])
               ELSE IF insert_bombs_continues(engine.board, 0)
               THEN /\ pc' = "insert_bombs"
                    /\ frame' = [pos |-> pos,
                                 safe_idxs |-> safe_idxs(engine.board, pos),
                                 bombs_placed |-> 0]
                    /\ engine' = engine
               ELSE RevealEnter(reveal_first_move(engine), pos, FALSE)
          ELSE RevealEnter(engine, pos, checks)

SampleStepwise(idx) ==
    /\ pc = "insert_bombs"
    /\ UNCHANGED current_tile_idx
    /\ last' = last
    /\ \E it \in {insert_bombs_iter(engine.board, frame, idx)} :
          IF insert_bombs_continues(engine.board, it.bombs_placed)
          THEN /\ engine' = [engine EXCEPT !.board.tiles = it.tiles]
               /\ pc' = "insert_bombs"
               /\ frame' = [frame EXCEPT !.bombs_placed = it.bombs_placed]
          ELSE \E e1 \in {reveal_first_move(
                             [engine EXCEPT !.board.tiles = it.tiles])} :
                  RevealEnter(e1, frame.pos, FALSE)

CascadeStep ==
    /\ pc = "reveal_tile"
    /\ UNCHANGED current_tile_idx
    /\ last' = last
    /\ LET st == reveal_tile_step([board |-> engine.board,
                                   queue |-> frame.queue])
           e1 == [engine EXCEPT !.board = st.board]
       IN  IF st.queue = <<>>
           THEN Return([engine |-> check_win_condition(e1),
                        panicked |-> FALSE])
           ELSE /\ engine' = e1
                /\ pc' = "reveal_tile"
                /\ frame' = [frame EXCEPT !.queue = st.queue]

NextCascade ==
    \/ /\ \E pos \in Inputs(engine) : Flag(pos)
       /\ UNCHANGED current_tile_idx
    \/ \E pos \in Inputs(engine) : RevealStepwise(pos)
    \/ \E idx \in 0 .. (tiles_len(engine.board) - 1) : SampleStepwise(idx)
    \/ CascadeStep

\* reveal_tile runs without waiting for anything: an iteration that can
\* run does run.
SpecCascade == Init /\ [][NextCascade]_vars /\ WF_vars(CascadeStep)

\* The stepwise engine with a fair sampler: as long as some index can be
\* accepted, the random source eventually proposes one (a rejected draw
\* leaves the state as it is), and the cascade runs on as in SpecCascade.
SampleAny ==
    \E idx \in 0 .. (tiles_len(engine.board) - 1) : SampleStepwise(idx)

SpecFair ==
    Init /\ [][NextCascade]_vars /\ WF_vars(CascadeStep) /\ WF_vars(SampleAny)

\* The engine driven by a caller that never calls flag.
NextNoFlag ==
    \/ /\ \E pos \in Inputs(engine) : Reveal(pos)
       /\ UNCHANGED current_tile_idx
    \/ /\ \E idx \in 0 .. (tiles_len(engine.board) - 1) : Sample(idx)
       /\ UNCHANGED current_tile_idx

SpecNoFlag == Init /\ [][NextNoFlag]_vars

\* The input handlers of src/src/main.rs.  MainState holds the engine and
\* current_tile_idx; board_settings always equals the settings the engine
\* was built from (reset_game sets both), so it is read from the engine's
\* board.  The face sprite, the timer and resizing do not reach the engine
\* and are left out.

\* The presets of board.rs.
EASY_BOARD == [w |-> 8, h |-> 8, num_bombs |-> 10]
MEDIUM_BOARD == [w |-> 16, h |-> 16, num_bombs |-> 40]
HARD_BOARD == [w |-> 30, h |-> 16, num_bombs |-> 99]

board_settings(e) ==
    [w |-> e.board.width, h |-> e.board.height, num_bombs |-> e.board.num_bombs]

\* Screen geometry in pixels: the menu strip on top, then the tiles.
MenuPx == 1
TilePx == 1

\* A float cast to usize saturates: negative values become 0.
as_usize(v) == IF v < 0 THEN 0 ELSE v

get_tile_index(mouse_x, mouse_y, settings) ==
    LET adjusted_y == mouse_y - MenuPx
    IN  IF mouse_y < MenuPx
        THEN NoTile
        ELSE LET board_x == as_usize(mouse_x \div TilePx)
                 board_y == as_usize(adjusted_y \div TilePx)
             IN  IF board_x < settings.w /\ board_y < settings.h
                 THEN SomeTile(board_y * settings.w + board_x)
                 ELSE NoTile

\* Mouse positions tried: the pointer is in the menu strip or on the first
\* row of tiles, from one pixel left of the window to pixel MaxMouseX, or
\* beyond the right or the bottom edge of the board.
MaxMouseX == 3

MouseXs(e) == (-1 .. MaxMouseX) \cup {e.board.width * TilePx}
MouseYs(e) == (0 .. (MenuPx + TilePx - 1))
                 \cup {MenuPx + e.board.height * TilePx}

\* What the rectangles of the menu contain at the mouse position: the face,
\* a difficulty button, or none of them.
MenuHits == {"none", "face", "easy", "medium", "hard"}

\* MainState::new_game and the fields reset_game replaces.
reset_game(settings) ==
    /\ engine' = EngineNew(settings.w, settings.h, settings.num_bombs)
    /\ current_tile_idx' = NoTile
    /\ pc' = "idle"
    /\ frame' = NoFrame

\* The state of the tile an event points at, for the history variable.
Pointed(op, tile_idx) ==
    [op |-> op, before |-> engine.state,
     target |-> IF tile_idx = NoTile THEN <<"None">>
                ELSE engine.board.tiles[tile_idx[1]].state]

\* The guard of the MouseButton::Right arm.
right_click_allowed(e) == ~is_lost(e) /\ ~is_won(e)

\* mouse_button_down_event with MouseButton::Left.
LeftDown(mouse_x, mouse_y, hit) ==
    /\ pc = "idle"
    /\ LET tile_idx == get_tile_index(mouse_x, mouse_y, board_settings(engine))
       IN  /\ last' = Pointed("left_down", tile_idx)
           /\ IF hit = "face"
              THEN reset_game(board_settings(engine))
              ELSE IF hit = "easy" THEN reset_game(EASY_BOARD)
              ELSE IF hit = "medium" THEN reset_game(MEDIUM_BOARD)
              ELSE IF hit = "hard" THEN reset_game(HARD_BOARD)
              ELSE /\ current_tile_idx' =
                         IF ~is_lost(engine) /\ ~is_won(engine)
                         THEN tile_idx
                         ELSE current_tile_idx
                   /\ UNCHANGED <<engine, pc, frame>>

\* mouse_button_down_event with MouseButton::Right.
RightDown(mouse_x, mouse_y) ==
    /\ pc = "idle"
    /\ UNCHANGED current_tile_idx
    /\ LET tile_idx == get_tile_index(mouse_x, mouse_y, board_settings(engine))
       IN  IF right_click_allowed(engine) /\ tile_idx # NoTile
           THEN Flag(from_index(tile_idx[1], engine.board.width))
           ELSE /\ last' = Pointed("right_down", tile_idx)
                /\ UNCHANGED <<engine, pc, frame>>

\* After Engine::reveal has returned, mouse_button_up_event clears the
\* pressed tile.
reveal_returned ==
    current_tile_idx' = IF pc' = "insert_bombs" THEN current_tile_idx ELSE NoTile

\* mouse_button_up_event with MouseButton::Left.
LeftUp ==
    /\ pc = "idle"
    /\ IF current_tile_idx # NoTile
       THEN /\ Reveal(from_index(current_tile_idx[1], engine.board.width))
            /\ reveal_returned
       ELSE /\ last' = Pointed("left_up", NoTile)
            /\ UNCHANGED <<engine, pc, frame, current_tile_idx>>

\* One draw of the sampler inside the reveal of mouse_button_up_event.
SampleInLeftUp(idx) ==
    /\ Sample(idx)
    /\ reveal_returned

mouse_motion_event(mouse_x, mouse_y) ==
    /\ pc = "idle"
    /\ LET new_idx == get_tile_index(mouse_x, mouse_y, board_settings(engine))
       IN  /\ last' = Pointed("motion", new_idx)
           /\ current_tile_idx' =
                 IF current_tile_idx # NoTile THEN new_idx ELSE current_tile_idx
    /\ UNCHANGED <<engine, pc, frame>>

\* MainState::new.
InitMain ==
    /\ engine = EngineNew(EASY_BOARD.w, EASY_BOARD.h, EASY_BOARD.num_bombs)
    /\ pc = "idle"
    /\ frame = NoFrame
    /\ last = [op |-> "new", before |-> "FirstMove", target |-> <<"None">>]
    /\ current_tile_idx = NoTile

\* The events of the window and, inside the first reveal of a game, the
\* draws of the random generator: any index of the board.
NextMain ==
    \/ \E mouse_x \in MouseXs(engine), mouse_y \in MouseYs(engine),
          hit \in MenuHits : LeftDown(mouse_x, mouse_y, hit)
    \/ \E mouse_x \in MouseXs(engine), mouse_y \in MouseYs(engine) :
          RightDown(mouse_x, mouse_y)
    \/ LeftUp
    \/ \E mouse_x \in MouseXs(engine), mouse_y \in MouseYs(engine) :
          mouse_motion_event(mouse_x, mouse_y)
    \/ /\ pc = "insert_bombs"
       /\ \E idx \in 0 .. (tiles_len(engine.board) - 1) : SampleInLeftUp(idx)

\* The program as it runs.  Every game starts on a preset board, and the
\* smallest preset (8x8 with 10 bombs) has more than 10^10 bomb layouts, so
\* the states of SpecMain in which a game is finished lie beyond an
\* exhaustive search.
SpecMain == InitMain /\ [][NextMain]_vars

\* The engine driven by a caller that does not keep to the board.
NextAny ==
    \/ /\ \E pos \in AnyInputs(engine) : Flag(pos)
       /\ UNCHANGED current_tile_idx
    \/ /\ \E pos \in AnyInputs(engine) : Reveal(pos)
       /\ UNCHANGED current_tile_idx
    \/ /\ \E idx \in 0 .. (tiles_len(engine.board) - 1) : Sample(idx)
       /\ UNCHANGED current_tile_idx

SpecAny == Init /\ [][NextAny]_vars

----------------------------------------------------------------------------
(* Derived notions used by the properties *)

Idxs == DOMAIN engine.board.tiles
Bombs == {i \in Idxs : engine.board.tiles[i].has_bomb}
RevealedIdxs == {i \in Idxs : is_revealed(engine.board.tiles[i])}
FlaggedIdxs == {i \in Idxs : is_flagged(engine.board.tiles[i])}

TypeOK ==
    /\ engine.state \in GameState
    /\ pc \in {"idle", "insert_bombs", "panicked"}
    /\ engine.board.tiles_left \in 0 .. tiles_len(engine.board)

TileAt(pos) == engine.board.tiles[to_index(pos, engine.board.width)]

\* The target c together with the coordinates of the board at distance at
\* most one from it in both axes.
SafeZone(c) ==
    {to_index(p, engine.board.width) : p \in
        {q \in Inputs(engine) :
            /\ q[1] - c[1] \in -1 .. 1
            /\ q[2] - c[2] \in -1 .. 1}}

Terminal == {"Won", "Lost"}

----------------------------------------------------------------------------
(* C1 *)

\* C1: first-move safety.  In every step of the first reveal call on an
\* in-bounds target c (the call itself and every draw of the sampler that
\* follows it), no tile of c's safe zone (c and its in-bounds neighbours)
\* holds a bomb afterwards, whichever index is drawn.
C1_FirstMoveSafety ==
    [][\A c \in Inputs(engine) :
          (/\ engine.state = "FirstMove"
           /\ \/ pc = "idle" /\ Reveal(c)
              \/ /\ pc = "insert_bombs"
                 /\ frame.pos = c
                 /\ \E idx \in Idxs : Sample(idx))
          => \A i \in SafeZone(c) : ~engine'.board.tiles[i].has_bomb]_vars

\* The first reveal has returned after placing at least one bomb.
C1_Witness ==
    /\ pc = "idle"
    /\ last.op = "reveal" /\ last.before = "FirstMove"
    /\ engine.state # "FirstMove"
    /\ Bombs # {}

----------------------------------------------------------------------------
(* C2 *)

C2_Layout ==
    pc = "idle" =>
       /\ engine.state = "FirstMove" => Bombs = {}
       /\ engine.state # "FirstMove" =>
             Cardinality(Bombs) = engine.board.num_bombs

\* C2: the bomb layout is fixed exactly once.  Between calls no tile holds
\* a bomb while the phase is FirstMove, exactly num_bombs distinct tiles hold
\* one once the first reveal has returned, and no step taken after the phase
\* has left FirstMove changes which tiles hold bombs.
C2_LayoutFixedOnce ==
    /\ []C2_Layout
    /\ [][engine.state # "FirstMove" => Bombs' = Bombs]_vars

\* A flag call made after two bombs were placed by the first reveal.
C2_Witness ==
    /\ pc = "idle"
    /\ engine.state = "InProgress"
    /\ last.op = "flag" /\ last.before = "InProgress"
    /\ Cardinality(Bombs) = 2

----------------------------------------------------------------------------
(* C3 *)

PhaseMoves ==
    { <<"FirstMove", "InProgress">>, <<"FirstMove", "Won">>,
      <<"InProgress", "Won">>, <<"InProgress", "Lost">> }

\* C3: the phase only moves along FirstMove -> InProgress -> {Won, Lost},
\* where one reveal may go from FirstMove through InProgress to Won; it
\* never returns to FirstMove and never leaves Won or Lost.
C3_PhaseOrder ==
    [][\/ engine'.state = engine.state
       \/ <<engine.state, engine'.state>> \in PhaseMoves]_vars

\* A call made in a terminal phase has returned, the phase still the same.
C3_Witness ==
    /\ pc = "idle"
    /\ last.op \in {"reveal", "flag"}
    /\ last.before \in Terminal
    /\ engine.state = last.before

----------------------------------------------------------------------------
(* C4 *)

\* C4: loss condition.  A reveal in phase InProgress whose target is a
\* concealed, unflagged tile holding a bomb sets the phase to Lost, marks
\* that tile Revealed and leaves every other tile as it was.
C4_Loss ==
    [][\A pos \in Inputs(engine) :
          (/\ pc = "idle"
           /\ engine.state = "InProgress"
           /\ TileAt(pos).state = Block(FALSE)
           /\ TileAt(pos).has_bomb
           /\ Reveal(pos))
          => LET idx == to_index(pos, engine.board.width)
             IN  /\ engine'.state = "Lost"
                 /\ engine'.board.tiles[idx].state = Revealed
                 /\ \A j \in Idxs \ {idx} :
                       engine'.board.tiles[j] = engine.board.tiles[j]]_vars

\* A reveal of an unflagged tile in phase InProgress has ended in Lost with
\* one bomb tile revealed.
C4_Witness ==
    /\ pc = "idle"
    /\ engine.state = "Lost"
    /\ last = [op |-> "reveal", before |-> "InProgress",
               target |-> Block(FALSE)]
    /\ Cardinality(Bombs \cap RevealedIdxs) = 1

----------------------------------------------------------------------------
(* C5 *)

NotRevealedCount == Cardinality(Idxs \ RevealedIdxs)

\* C5 as stated: between calls the phase is Won exactly when the number of
\* tiles that are not Revealed equals num_bombs.
C5_WonIffCountsEqual ==
    pc = "idle" =>
       (engine.state = "Won" <=> NotRevealedCount = engine.board.num_bombs)

\* C5 amended: between calls, Won implies that the number of tiles that are
\* not Revealed equals num_bombs, and equal counts imply Won unless the phase
\* is FirstMove (nothing revealed yet) or Lost (the revealed bomb is counted
\* as revealed).
C5_WonIffCountsEqualInPlay ==
    pc = "idle" =>
       /\ engine.state = "Won" => NotRevealedCount = engine.board.num_bombs
       /\ (/\ NotRevealedCount = engine.board.num_bombs
           /\ engine.state \notin {"FirstMove", "Lost"})
          => engine.state = "Won"

\* A reveal on a board with bombs has ended in Won.
C5_Witness ==
    /\ pc = "idle"
    /\ engine.state = "Won"
    /\ last.op = "reveal" /\ last.before \in {"FirstMove", "InProgress"}
    /\ engine.board.num_bombs > 0
    /\ NotRevealedCount = engine.board.num_bombs

----------------------------------------------------------------------------
(* C6 *)

FixedBomb == to_index(Position(1, 1), 3)

\* C6 as stated: on the fixed 3x3 layout one reveal((0,0)) reveals all 8
\* tiles without a bomb, leaves the bomb tile concealed and sets Won.
C6_CascadeRevealsAll ==
    [][(/\ pc = "idle"
        /\ engine = FixedEngine
        /\ Reveal(Position(0, 0)))
       => /\ RevealedIdxs' = Idxs \ {FixedBomb}
          /\ engine'.state = "Won"]_vars

\* C6 amended: on the fixed 3x3 layout every tile without a bomb has one
\* adjacent bomb, so one reveal((0,0)) reveals exactly the tile (0,0), does
\* not cascade, leaves the other 8 tiles (the bomb tile among them)
\* concealed and the phase InProgress, with 8 tiles left.
C6_NoCascadeOnFixed ==
    [][(/\ pc = "idle"
        /\ engine = FixedEngine
        /\ Reveal(Position(0, 0)))
       => /\ RevealedIdxs' = {to_index(Position(0, 0), 3)}
          /\ engine'.state = "InProgress"
          /\ engine'.board.tiles_left = 8
          /\ \A j \in Idxs \ {to_index(Position(0, 0), 3)} :
                engine'.board.tiles[j] = engine.board.tiles[j]]_vars

\* The state right after reveal((0,0)) on the fixed layout.
C6_Witness ==
    /\ pc = "idle"
    /\ engine.board.width = 3 /\ engine.board.height = 3
    /\ Bombs = {FixedBomb}
    /\ last = [op |-> "reveal", before |-> "InProgress",
               target |-> Block(FALSE)]
    /\ RevealedIdxs = {0}
    /\ FlaggedIdxs = {}
    /\ engine.state = "InProgress"

----------------------------------------------------------------------------
(* C7 *)

\* C7: on a fresh engine without bombs the first reveal of any in-bounds
\* tile leaves every tile Revealed and the phase Won.
C7_ZeroBombsRevealAll ==
    [][(/\ pc = "idle"
        /\ engine = EngineNew(engine.board.width, engine.board.height, 0))
       => \A pos \in Inputs(engine) :
             Reveal(pos) => /\ RevealedIdxs' = Idxs
                            /\ engine'.state = "Won"]_vars

\* The first reveal on a board of several tiles without bombs has returned.
C7_Witness ==
    /\ pc = "idle"
    /\ engine.board.num_bombs = 0
    /\ engine.board.width > 1 /\ engine.board.height > 1
    /\ last = [op |-> "reveal", before |-> "FirstMove",
               target |-> Block(FALSE)]
    /\ FlaggedIdxs = {}
    /\ RevealedIdxs = Idxs
    /\ engine.state = "Won"

----------------------------------------------------------------------------
(* C8 *)

\* C8: a reveal made in phase Won or Lost leaves the whole engine (every
\* tile, tiles_left, bombs_left and the phase) as it was.
C8_TerminalRevealNoOp ==
    [][\A pos \in Inputs(engine) :
          (/\ pc = "idle"
           /\ engine.state \in Terminal
           /\ Reveal(pos))
          => engine' = engine]_vars

\* A reveal aimed at a concealed, unflagged tile has returned in a terminal
\* phase.
C8_Witness ==
    /\ pc = "idle"
    /\ last.op = "reveal"
    /\ last.before \in Terminal
    /\ last.target = Block(FALSE)

----------------------------------------------------------------------------
(* C9 *)

FlagBits(e) == [i \in DOMAIN e.board.tiles |-> is_flagged(e.board.tiles[i])]

\* C9 as stated: a flag call made in phase Won or Lost changes neither any
\* tile's flagged bit nor bombs_left.
C9_TerminalFlagNoOp ==
    [][\A pos \in Inputs(engine) :
          (/\ pc = "idle"
           /\ engine.state \in Terminal
           /\ Flag(pos))
          => /\ FlagBits(engine') = FlagBits(engine)
             /\ engine'.bombs_left = engine.bombs_left]_vars

\* C9 amended: a flag call made in phase Won or Lost changes nothing when
\* its target is Revealed; on a Concealed target it still flips that tile's
\* flagged bit and moves bombs_left by one (down when flagging, up when
\* unflagging).  The phase, tiles_left, every other tile and every bomb and
\* adjacency field stay as they were.
C9_TerminalFlagStillToggles ==
    [][\A pos \in Inputs(engine) :
          (/\ pc = "idle"
           /\ engine.state \in Terminal
           /\ Flag(pos))
          => LET idx == to_index(pos, engine.board.width)
                 old == engine.board.tiles[idx].state
             IN  engine' =
                    IF old = Revealed THEN engine
                    ELSE IF old = Block(FALSE)
                    THEN [engine EXCEPT
                            !.board.tiles[idx].state = Block(TRUE),
                            !.bombs_left = engine.bombs_left - 1]
                    ELSE [engine EXCEPT
                            !.board.tiles[idx].state = Block(FALSE),
                            !.bombs_left = engine.bombs_left + 1]]_vars

\* A flag call on an unflagged concealed tile has returned in a terminal
\* phase.
C9_Witness ==
    /\ pc = "idle"
    /\ last.op = "flag"
    /\ last.before \in Terminal
    /\ last.target = Block(FALSE)
    /\ FlaggedIdxs # {}

----------------------------------------------------------------------------
(* C10 *)

\* C10: flag toggling is an involution.  Between calls, in any phase and for
\* any concealed tile, one flag call flips the tile's flagged bit, moves
\* bombs_left by one and changes nothing else, and a second flag call on the
\* same coordinate gives back the engine as it was.
C10_FlagInvolution ==
    pc = "idle" =>
       \A pos \in Inputs(engine) :
          TileAt(pos).state # Revealed =>
             LET idx == to_index(pos, engine.board.width)
                 once == flag(engine, pos, FALSE)
                 twice == flag(once.engine, pos, FALSE)
             IN  /\ ~once.panicked /\ ~twice.panicked
                 /\ is_flagged(once.engine.board.tiles[idx])
                       = ~is_flagged(TileAt(pos))
                 /\ once.engine.board.tiles[idx].state # Revealed
                 /\ once.engine =
                       [engine EXCEPT
                          !.board.tiles[idx].state =
                              once.engine.board.tiles[idx].state,
                          !.bombs_left = once.engine.bombs_left]
                 /\ once.engine.bombs_left # engine.bombs_left
                 /\ twice.engine = engine

\* A flag call has just removed a flag again: no tile is flagged and
\* bombs_left is back at num_bombs.
C10_Witness ==
    /\ pc = "idle"
    /\ last.op = "flag"
    /\ last.target = Block(TRUE)
    /\ FlaggedIdxs = {}
    /\ engine.bombs_left = engine.board.num_bombs

----------------------------------------------------------------------------
(* C11 *)

\* The in-bounds neighbours of the tile with index i, as indices.
NeighbourIdxs(i) ==
    LET p == from_index(i, engine.board.width)
    IN  {to_index(q, engine.board.width) : q \in
            {r \in Inputs(engine) :
                /\ r # p
                /\ r[1] - p[1] \in -1 .. 1
                /\ r[2] - p[2] \in -1 .. 1}}

\* C11: flags block the flood.  In every step of a reveal call (the call
\* itself and the sampler draws of a first reveal), every tile that is
\* Concealed(flagged) before the step is Concealed(flagged) after it, the
\* target and the tiles in or next to a cascaded region included.
C11_FlagsBlockFlood ==
    [][((\E pos \in Inputs(engine) : Reveal(pos))
           \/ (\E idx \in Idxs : Sample(idx)))
       => \A i \in FlaggedIdxs : engine'.board.tiles[i] = engine.board.tiles[i]
             \/ (/\ engine.state = "FirstMove"
                 /\ engine'.board.tiles[i].state = Block(TRUE))]_vars

\* A reveal has cascaded from a tile without adjacent bombs and stopped at
\* a flagged neighbour of a revealed tile without adjacent bombs.
C11_Witness ==
    /\ pc = "idle"
    /\ last.op = "reveal" /\ last.target = Block(FALSE)
    /\ \E i \in FlaggedIdxs : \E j \in NeighbourIdxs(i) :
          /\ j \in RevealedIdxs
          /\ ~engine.board.tiles[j].has_bomb
          /\ engine.board.tiles[j].adjacent_bombs = 0

----------------------------------------------------------------------------
(* C12 *)

\* C12: counter/grid consistency.  Between calls, in every phase, the
\* number of Revealed tiles plus tiles_left equals width*height.
C12_CounterMatchesGrid ==
    pc = "idle" =>
       Cardinality(RevealedIdxs) + engine.board.tiles_left
          = engine.board.width * engine.board.height

----------------------------------------------------------------------------
(* C14 *)

\* C14: winning means clearing the board.  Between calls, once the bombs
\* are placed, the phase is Won exactly when every tile without a bomb is
\* Revealed and no tile with a bomb is.
C14_WonIffCleared ==
    (pc = "idle" /\ engine.state # "FirstMove") =>
       (engine.state = "Won" <=> RevealedIdxs = Idxs \ Bombs)

\* A game with bombs won by a reveal made after the first one.
C14_Witness ==
    /\ pc = "idle"
    /\ engine.state = "Won"
    /\ last.op = "reveal" /\ last.before = "InProgress"
    /\ Bombs # {}
    /\ RevealedIdxs = Idxs \ Bombs

----------------------------------------------------------------------------
(* C15 *)

\* C15: mines-left display.  Between calls bombs_left() is num_bombs minus
\* the number of flagged tiles, clamped at zero, and no step of a reveal
\* call changes the signed counter.
C15_BombsLeftDisplay ==
    /\ [](pc = "idle" =>
            bombs_left(engine) =
               IF engine.board.num_bombs - Cardinality(FlaggedIdxs) < 0
               THEN 0
               ELSE engine.board.num_bombs - Cardinality(FlaggedIdxs))
    /\ [][((\E pos \in Inputs(engine) : Reveal(pos))
              \/ (\E idx \in Idxs : Sample(idx)))
          => engine'.bombs_left = engine.bombs_left]_vars

\* More tiles are flagged than there are bombs and a reveal has returned:
\* the display shows 0.
C15_Witness ==
    /\ pc = "idle"
    /\ last.op = "reveal" /\ last.target = Block(FALSE)
    /\ Cardinality(FlaggedIdxs) > engine.board.num_bombs
    /\ engine.board.num_bombs > 0
    /\ bombs_left(engine) = 0

----------------------------------------------------------------------------
(* C16 *)

\* C16: a freshly constructed engine is in phase FirstMove with width*height
\* tiles, each concealed, unflagged, without bomb and with adjacency 0,
\* tiles_left = width*height and bombs_left() = num_bombs; the number of
\* tiles is width*height in every state.
C16_FreshEngine ==
    /\ DOMAIN engine.board.tiles =
          0 .. (engine.board.width * engine.board.height - 1)
    /\ last.op = "new" =>
          /\ engine.state = "FirstMove"
          /\ \A i \in Idxs :
                /\ engine.board.tiles[i].state = Block(FALSE)
                /\ ~engine.board.tiles[i].has_bomb
                /\ engine.board.tiles[i].adjacent_bombs = 0
          /\ engine.board.tiles_left
                = engine.board.width * engine.board.height
          /\ bombs_left(engine) = engine.board.num_bombs

\* A fresh 3x2 engine with two bombs to place.
C16_Witness ==
    /\ last.op = "new"
    /\ pc = "idle"
    /\ engine.board.width = 3 /\ engine.board.height = 2
    /\ engine.board.num_bombs = 2

----------------------------------------------------------------------------
(* C17 *)

\* C17: an invalid configuration is reported and the sampling loop never
\* runs without being able to finish: whenever the loop of insert_bombs is
\* running, the bombs still to place fit on the tiles a draw can accept.
C17_LoopCanFinish ==
    pc = "insert_bombs" =>
       engine.board.num_bombs - frame.bombs_placed
          <= Cardinality({idx \in Idxs :
                ~sample_rejected(engine.board.tiles, frame.safe_idxs, idx)})

----------------------------------------------------------------------------
(* C13 *)

\* C13: on a board with num_bombs <= width*height - 9, in every state
\* tiles_left is at least num_bombs, and it equals num_bombs exactly when
\* the phase is Won.
C13_TilesLeftBound ==
    engine.board.num_bombs <= engine.board.width * engine.board.height - 9
    => /\ engine.board.tiles_left >= engine.board.num_bombs
       /\ engine.board.tiles_left = engine.board.num_bombs
             <=> engine.state = "Won"

\* A game with a bomb on a board of 10 tiles, won by a reveal made after
\* the first one.
C13_Witness ==
    /\ pc = "idle"
    /\ engine.board.num_bombs = 1
    /\ engine.board.num_bombs
          <= engine.board.width * engine.board.height - 9
    /\ last.op = "reveal" /\ last.before = "InProgress"
    /\ engine.state = "Won"
    /\ engine.board.tiles_left = 1

----------------------------------------------------------------------------
(* C18 *)

\* C18: out-of-bounds coordinates crash rather than act.  A flag or reveal
\* call with a coordinate outside the board ends in a panic and leaves
\* every tile as it was.
C18_OutOfBoundsPanics ==
    [][\A pos \in AnyInputs(engine) \ Inputs(engine) :
          (pc = "idle" /\ (Flag(pos) \/ Reveal(pos)))
          => /\ pc' = "panicked"
             /\ engine'.board.tiles = engine.board.tiles]_vars

----------------------------------------------------------------------------
(* C19 *)

\* C19: every cascade terminates within the grid size.  A running
\* reveal_tile eventually empties its queue and returns; each iteration
\* newly reveals at most one tile, a concealed and unflagged one, never
\* conceals a revealed tile, and decrements tiles_left exactly by the number
\* of tiles it newly reveals (so not at all when the dequeued coordinate is
\* already revealed); tiles_left stays within 0 .. width*height, so one
\* cascade newly reveals at most width*height tiles.
C19_CascadeTerminates ==
    /\ (pc = "reveal_tile") ~> (pc = "idle")
    /\ [][CascadeStep =>
            LET new == RevealedIdxs' \ RevealedIdxs
            IN  /\ RevealedIdxs \subseteq RevealedIdxs'
                /\ Cardinality(new) <= 1
                /\ \A i \in new : engine.board.tiles[i].state = Block(FALSE)
                /\ engine'.board.tiles_left
                      = engine.board.tiles_left - Cardinality(new)]_vars
    /\ [](engine.board.tiles_left \in
             0 .. engine.board.width * engine.board.height)

\* Inside a cascade, the queue holds an already revealed coordinate twice.
C19_Witness ==
    /\ pc = "reveal_tile"
    /\ \E i, j \in 1 .. Len(frame.queue) :
          /\ i < j
          /\ frame.queue[i] = frame.queue[j]
          /\ is_revealed(TileAt(frame.queue[i]))

----------------------------------------------------------------------------
(* C20 *)

\* The precondition of bomb placement for the running first reveal:
\* num_bombs <= width*height - |safe set|.
PlacementFits ==
    engine.board.num_bombs
       <= engine.board.width * engine.board.height
             - Cardinality(SafeZone(frame.pos))

\* C20: bomb placement terminates under its precondition.  With a fair
\* sampler, a sampling loop that runs under the precondition eventually
\* stops, the first reveal returning with exactly num_bombs bombs placed;
\* a loop that runs with the precondition violated is never left.
C20_PlacementTerminates ==
    /\ (pc = "insert_bombs" /\ PlacementFits)
          ~> (/\ pc = "idle"
              /\ engine.state # "FirstMove"
              /\ Cardinality(Bombs) = engine.board.num_bombs)
    /\ [][(pc = "insert_bombs" /\ ~PlacementFits)
             => pc' = "insert_bombs"]_vars

\* The first reveal of a game with two bombs has returned on the 3x2 board,
\* where two tiles lie outside the safe zone of a corner.
C20_Witness ==
    /\ pc = "idle"
    /\ last.op = "reveal" /\ last.before = "FirstMove"
    /\ engine.state # "FirstMove"
    /\ engine.board.num_bombs = 2
    /\ Cardinality(Bombs) = 2
    /\ engine.board.width = 3 /\ engine.board.height = 2

----------------------------------------------------------------------------
(* C21 *)

\* The number of in-bounds neighbours of tile i that hold a bomb.
BombNeighbours(i) == Cardinality(NeighbourIdxs(i) \cap Bombs)

AdjacencyMatches ==
    \A i \in Idxs :
       engine.board.tiles[i].adjacent_bombs =
          IF engine.board.tiles[i].has_bomb THEN 0 ELSE BombNeighbours(i)

\* C21: adjacency counts match the layout.  Once the first reveal has
\* computed them, every tile without a bomb stores the number of its
\* in-bounds neighbours that hold one (0..8), every tile with a bomb stores
\* 0, and no later step changes a stored count.
C21_AdjacencyMatchesLayout ==
    /\ [](engine.state # "FirstMove" =>
             /\ AdjacencyMatches
             /\ \A i \in Idxs : engine.board.tiles[i].adjacent_bombs \in 0 .. 8)
    /\ [][engine.state # "FirstMove" =>
             \A i \in Idxs :
                engine'.board.tiles[i].adjacent_bombs
                   = engine.board.tiles[i].adjacent_bombs]_vars

\* A flag call made after the first reveal, on a layout where some tile
\* without a bomb has two bombs next to it and the last column holds a bomb.
C21_Witness ==
    /\ pc = "idle"
    /\ last.op = "flag" /\ last.before = "InProgress"
    /\ \E i \in Idxs \ Bombs : engine.board.tiles[i].adjacent_bombs = 2
    /\ \E i \in Bombs : i % engine.board.width = engine.board.width - 1

----------------------------------------------------------------------------
(* C22 *)

\* The reference flood fill: the least set that contains S and, for each
\* of its tiles whose count in the board `after` is 0, every in-bounds
\* neighbour that is concealed and unflagged in the board `before`.
RECURSIVE FloodFill(_, _, _)
FloodFill(before, after, S) ==
    LET more == {j \in DOMAIN before.tiles :
                    /\ before.tiles[j].state = Block(FALSE)
                    /\ \E t \in S :
                          /\ after.tiles[t].adjacent_bombs = 0
                          /\ j \in NeighbourIdxs(t)}
    IN  IF more \subseteq S THEN S ELSE FloodFill(before, after, S \cup more)

\* The step in which a reveal call aimed at pos returns: the call itself,
\* or the draw of the sampler that ends a first reveal.
RevealReturns(pos) ==
    /\ pc' = "idle"
    /\ \/ pc = "idle" /\ Reveal(pos)
       \/ /\ pc = "insert_bombs"
          /\ frame.pos = pos
          /\ \E idx \in Idxs : Sample(idx)

\* C22: the cascade equals the reference flood fill.  For a reveal call in
\* phase FirstMove or InProgress whose target c is concealed, unflagged and
\* without a bomb, the tiles newly Revealed when it returns are exactly the
\* flood fill from c; outside that set no tile changes its state, and, once
\* the bombs are placed, nothing at all.
C22_CascadeIsFloodFill ==
    [][\A pos \in Inputs(engine) :
          LET c == to_index(pos, engine.board.width)
          IN  (/\ engine.state \notin Terminal
               /\ engine.board.tiles[c].state = Block(FALSE)
               /\ RevealReturns(pos)
               /\ ~engine'.board.tiles[c].has_bomb)
              => LET S == FloodFill(engine.board, engine'.board, {c})
                 IN  /\ RevealedIdxs' \ RevealedIdxs = S
                     /\ \A j \in Idxs \ S :
                           /\ engine'.board.tiles[j].state
                                 = engine.board.tiles[j].state
                           /\ engine.state = "InProgress" =>
                                 engine'.board.tiles[j] = engine.board.tiles[j]
       ]_vars

\* A first reveal on a board with bombs has cascaded over several tiles and
\* stopped at a flagged neighbour of a tile without adjacent bombs, the game
\* still in progress.
C22_Witness ==
    /\ pc = "idle"
    /\ last = [op |-> "reveal", before |-> "FirstMove",
               target |-> Block(FALSE)]
    /\ engine.state = "InProgress"
    /\ Bombs # {}
    /\ Cardinality(RevealedIdxs) >= 2
    /\ \E i \in FlaggedIdxs \ Bombs : \E j \in NeighbourIdxs(i) :
          /\ j \in RevealedIdxs
          /\ engine.board.tiles[j].adjacent_bombs = 0

----------------------------------------------------------------------------
(* C23 *)

\* C23: a bomb is only ever revealed by losing.  In every state with phase
\* FirstMove, InProgress or Won no tile with a bomb is Revealed (the
\* cascade never reveals one), and the phase is Lost exactly when exactly
\* one tile with a bomb is Revealed.
C23_BombRevealedOnlyByLosing ==
    /\ engine.state \in {"FirstMove", "InProgress", "Won"} =>
          Bombs \cap RevealedIdxs = {}
    /\ engine.state = "Lost" <=> Cardinality(Bombs \cap RevealedIdxs) = 1

\* A game with two bombs lost after a cascade had opened several tiles: one
\* bomb is Revealed, the other still concealed.
C23_Witness ==
    /\ pc = "idle"
    /\ engine.state = "Lost"
    /\ engine.board.num_bombs = 2
    /\ Cardinality(RevealedIdxs \ Bombs) >= 3
    /\ Cardinality(Bombs \cap RevealedIdxs) = 1
    /\ Cardinality(Bombs \ RevealedIdxs) = 1

----------------------------------------------------------------------------
(* C24 *)

\* C24: the first click opens the safe zone and cannot lose.  When the
\* first reveal call of a game returns, the phase is not Lost, and if its
\* target was unflagged, the target is Revealed with count 0 and every
\* in-bounds neighbour of the target that was not flagged is Revealed.
C24_FirstClickOpensSafeZone ==
    [][\A pos \in Inputs(engine) :
          LET c == to_index(pos, engine.board.width)
          IN  (engine.state = "FirstMove" /\ RevealReturns(pos))
              => /\ engine'.state # "Lost"
                 /\ engine.board.tiles[c].state = Block(FALSE) =>
                       /\ engine'.board.tiles[c].state = Revealed
                       /\ engine'.board.tiles[c].adjacent_bombs = 0
                       /\ \A j \in NeighbourIdxs(c) :
                             \/ engine.board.tiles[j].state = Block(TRUE)
                             \/ engine'.board.tiles[j].state = Revealed]_vars

\* The first reveal of a game with two bombs has returned: its target was
\* unflagged, one tile is flagged, and the game goes on.
C24_Witness ==
    /\ pc = "idle"
    /\ last = [op |-> "reveal", before |-> "FirstMove",
               target |-> Block(FALSE)]
    /\ engine.board.num_bombs = 2
    /\ Cardinality(Bombs) = 2
    /\ Cardinality(FlaggedIdxs) = 1
    /\ Cardinality(RevealedIdxs) >= 3
    /\ engine.state = "InProgress"

----------------------------------------------------------------------------
(* C25 *)

\* C25: a first reveal aimed at a flagged tile still starts the game.  When
\* it returns, num_bombs bombs are placed outside the safe zone of the
\* target, the adjacency counts are those of that layout and the phase is
\* InProgress; no tile is Revealed, and tiles_left, bombs_left and every
\* tile's state are as before the call.
C25_FlaggedFirstRevealStartsGame ==
    [][\A pos \in Inputs(engine) :
          LET c == to_index(pos, engine.board.width)
          IN  (/\ engine.state = "FirstMove"
               /\ engine.board.tiles[c].state = Block(TRUE)
               /\ RevealReturns(pos))
              => /\ engine'.state = "InProgress"
                 /\ Cardinality(Bombs') = engine.board.num_bombs
                 /\ Bombs' \cap SafeZone(pos) = {}
                 /\ AdjacencyMatches'
                 /\ RevealedIdxs' = {}
                 /\ engine'.board.tiles_left = engine.board.tiles_left
                 /\ engine'.bombs_left = engine.bombs_left
                 /\ \A j \in Idxs :
                       engine'.board.tiles[j].state
                          = engine.board.tiles[j].state]_vars

\* The first reveal of a game with bombs was aimed at a flagged tile and
\* has returned: bombs are placed and nothing is revealed.
C25_Witness ==
    /\ pc = "idle"
    /\ last = [op |-> "reveal", before |-> "FirstMove",
               target |-> Block(TRUE)]
    /\ engine.state = "InProgress"
    /\ Cardinality(Bombs) = 2
    /\ RevealedIdxs = {}
    /\ FlaggedIdxs # {}

----------------------------------------------------------------------------
(* C26 *)

\* C26: a reveal on a revealed or flagged tile is a no-op.  In phase
\* InProgress a reveal call whose target is Revealed or Concealed(flagged),
\* with or without a bomb, leaves the whole engine as it was, the phase
\* included.
C26_RevealOnOpenOrFlaggedNoOp ==
    [][\A pos \in Inputs(engine) :
          (/\ pc = "idle"
           /\ engine.state = "InProgress"
           /\ TileAt(pos).state \in {Revealed, Block(TRUE)}
           /\ Reveal(pos))
          => /\ engine' = engine
             /\ pc' = "idle"]_vars

\* A reveal aimed at a flagged tile has returned in phase InProgress, every
\* flagged tile holding a bomb.
C26_Witness ==
    /\ pc = "idle"
    /\ last = [op |-> "reveal", before |-> "InProgress",
               target |-> Block(TRUE)]
    /\ engine.state = "InProgress"
    /\ FlaggedIdxs # {}
    /\ FlaggedIdxs \subseteq Bombs
    /\ RevealedIdxs # {}

----------------------------------------------------------------------------
(* C27 *)

\* C27: the frame of flag.  In every phase a flag call on a Revealed tile
\* changes nothing, and on a Concealed tile it flips that tile's flagged
\* bit and moves bombs_left by exactly one (down when flagging, up when
\* unflagging); the phase, tiles_left, every bomb and adjacency field and
\* every other tile stay as they were, and no bomb is placed.
C27_FlagFrame ==
    [][\A pos \in Inputs(engine) :
          (pc = "idle" /\ Flag(pos))
          => LET idx == to_index(pos, engine.board.width)
                 old == engine.board.tiles[idx]
                 new == engine'.board.tiles[idx]
             IN  /\ pc' = "idle"
                 /\ engine'.state = engine.state
                 /\ engine'.board.tiles_left = engine.board.tiles_left
                 /\ engine'.board.num_bombs = engine.board.num_bombs
                 /\ Bombs' = Bombs
                 /\ \A j \in Idxs \ {idx} :
                       engine'.board.tiles[j] = engine.board.tiles[j]
                 /\ new.has_bomb = old.has_bomb
                 /\ new.adjacent_bombs = old.adjacent_bombs
                 /\ old.state = Revealed => engine' = engine
                 /\ old.state = Block(FALSE) =>
                       /\ new.state = Block(TRUE)
                       /\ engine'.bombs_left = engine.bombs_left - 1
                 /\ old.state = Block(TRUE) =>
                       /\ new.state = Block(FALSE)
                       /\ engine'.bombs_left = engine.bombs_left + 1]_vars

\* A flag call has removed one of two flags before the first reveal: the
\* phase is still FirstMove and no bomb is placed.
C27_Witness ==
    /\ pc = "idle"
    /\ last = [op |-> "flag", before |-> "FirstMove", target |-> Block(TRUE)]
    /\ engine.state = "FirstMove"
    /\ Cardinality(FlaggedIdxs) = 1
    /\ Bombs = {}
    /\ engine.bombs_left = engine.board.num_bombs - 1

----------------------------------------------------------------------------
(* C29 *)

\* C29: opened regions are closed when no flags are used.  In a run without
\* flag calls, between calls every in-bounds neighbour of a Revealed tile
\* that has no bomb and count 0 is itself Revealed.
C29_OpenedRegionsClosed ==
    pc = "idle" =>
       \A i \in RevealedIdxs \ Bombs :
          engine.board.tiles[i].adjacent_bombs = 0 =>
             NeighbourIdxs(i) \subseteq RevealedIdxs

\* A reveal has opened a region of tiles with count 0 and stopped at its
\* border: two bombs and a tile without a bomb are still concealed.
C29_Witness ==
    /\ pc = "idle"
    /\ last.op = "reveal"
    /\ engine.state = "InProgress"
    /\ Cardinality(Bombs) = 2
    /\ FlaggedIdxs = {}
    /\ \E i \in RevealedIdxs : engine.board.tiles[i].adjacent_bombs = 0
    /\ \E i \in RevealedIdxs : engine.board.tiles[i].adjacent_bombs > 0
    /\ (Idxs \ Bombs) \ RevealedIdxs # {}

----------------------------------------------------------------------------
(* C28 *)

TileStates(e) == [i \in DOMAIN e.board.tiles |-> e.board.tiles[i].state]

\* C28: through the input handlers a finished game is frozen.  Once the
\* engine is Won or Lost, an event either replaces it with a fresh engine
\* in FirstMove (a click on the face or on a difficulty button) or leaves
\* every tile's state and bombs_left() as they are; and the pressed tile
\* index is never set while the game is finished.  This is the statement
\* for SpecMain; its finished games are out of reach of an exhaustive
\* search, so it is stated here and not settled.
C28_FinishedGameFrozen ==
    /\ [][engine.state \in Terminal =>
             \/ /\ TileStates(engine') = TileStates(engine)
                /\ bombs_left(engine') = bombs_left(engine)
                /\ engine'.state = engine.state
             \/ /\ last'.op = "left_down"
                /\ current_tile_idx' = NoTile
                /\ \E settings \in {board_settings(engine), EASY_BOARD,
                                   MEDIUM_BOARD, HARD_BOARD} :
                      engine' = EngineNew(settings.w, settings.h,
                                          settings.num_bombs)]_vars
    /\ [](engine.state \in Terminal => current_tile_idx = NoTile)

====
